---- MODULE Spec2Model ----
(***************************************************************************)
(* Model of the DNS query encoder of src/main.rs (DnsHeader, DnsQuestion,  *)
(* Domain, DnsQuery and their Serialize impls) and of the run() glue.      *)
(* Byte buffers are sequences of 0..255; a serialize call either returns   *)
(* or panics (the unwrap at main.rs:51), and the buffer it was appending   *)
(* to keeps whatever had been put before the panic.                        *)
(***************************************************************************)
EXTENDS Integers, Sequences, FiniteSets, TLC

\* ---------------------------------------------------------------- bounds
MaxLen == 4
NumIds == 3
NumRunIds == 20

\* ------------------------------------------------------ program constants
U8Max == 255
RECURSION_DESIRED == 256
RecvBufLen == 1024
Dot == 46

\* --------------------------------------------------------------- helpers
Types == {"A"}

TypeCode(ty) == CASE ty = "A" -> 1

ClassCode(class) == CASE class = "In" -> 1

put_u8(dst, n) == Append(dst, n)

put_slice(dst, src) == dst \o src

\* variant: low byte first
put_u16_le(dst, n) == dst \o <<n % 256, n \div 256>>

put_u16(dst, n) == dst \o <<n \div 256, n % 256>>

\* usize -> u8 conversion: Ok(n) when it fits, Err otherwise
TryIntoU8(n) == IF n <= U8Max THEN [ok |-> TRUE, val |-> n]
                ELSE [ok |-> FALSE, val |-> 0]

\* slice::split(|c| c == b'.'): the parts between consecutive separators, in
\* order; always at least one part, empty parts kept
DotsOf(s) == {i \in 1..Len(s) : s[i] = Dot}

\* position of the k-th separator; 0 and Len(s) + 1 stand for the two ends
Cut(s, k) ==
    IF k = 0 THEN 0
    ELSE IF k > Cardinality(DotsOf(s)) THEN Len(s) + 1
    ELSE CHOOSE i \in DotsOf(s) : Cardinality({j \in DotsOf(s) : j < i}) = k - 1

Split(s) ==
    [k \in 1..(Cardinality(DotsOf(s)) + 1) |->
        [i \in 1..(Cut(s, k) - Cut(s, k - 1) - 1) |-> s[Cut(s, k - 1) + i]]]

\* ------------------------------------------------------------ serializers
\* every serializer yields the buffer and whether the call panicked
DnsHeader_serialize(h, dst) ==
    LET b1 == put_u16(dst, h.id)
        b2 == put_u16(b1, h.flags)
        b3 == put_u16(b2, h.num_questions)
        b4 == put_u16(b3, h.num_answers)
        b5 == put_u16(b4, h.num_authorities)
        b6 == put_u16(b5, h.num_additionals)
    IN [dst |-> b6, panicked |-> FALSE]

\* variant: empty parts are skipped
RECURSIVE SerializeParts_skipEmpty(_, _)
SerializeParts_skipEmpty(parts, dst) ==
    IF parts = <<>> THEN [dst |-> put_u8(dst, 0), panicked |-> FALSE]
    ELSE LET part == Head(parts)
             len == TryIntoU8(Len(part))
         IN IF ~len.ok THEN [dst |-> dst, panicked |-> TRUE]
            ELSE IF part = <<>> THEN SerializeParts_skipEmpty(Tail(parts), dst)
            ELSE SerializeParts_skipEmpty(Tail(parts),
                                          put_slice(put_u8(dst, len.val), part))

RECURSIVE SerializeParts(_, _)
SerializeParts(parts, dst) ==
    IF parts = <<>> THEN [dst |-> put_u8(dst, 0), panicked |-> FALSE]
    ELSE LET part == Head(parts)
             len == TryIntoU8(Len(part))
         IN IF ~len.ok THEN [dst |-> dst, panicked |-> TRUE]
            ELSE SerializeParts(Tail(parts),
                                put_slice(put_u8(dst, len.val), part))

\* variant: the terminating zero byte is dropped
Domain_serialize_noTerminator(name, dst) ==
    LET r == SerializeParts(Split(name), dst)
    IN IF r.panicked THEN r
       ELSE [dst |-> SubSeq(r.dst, 1, Len(r.dst) - 1), panicked |-> FALSE]

Domain_serialize(name, dst) == SerializeParts(Split(name), dst)

\* variant: the class code is left out
DnsQuestion_serialize_noClass(q, dst) ==
    LET r == Domain_serialize(q.name, dst)
    IN IF r.panicked THEN r
       ELSE [dst |-> put_u16(r.dst, TypeCode(q.ty)), panicked |-> FALSE]

DnsQuestion_serialize(q, dst) ==
    LET r == Domain_serialize(q.name, dst)
    IN IF r.panicked THEN r
       ELSE [dst |-> put_u16(put_u16(r.dst, TypeCode(q.ty)), ClassCode(q.class)),
             panicked |-> FALSE]

DefaultHeader == [id |-> 0, flags |-> 0, num_questions |-> 0,
                  num_answers |-> 0, num_authorities |-> 0,
                  num_additionals |-> 0]

\* variant: the question count is left at its default
DnsQuery_new_noCount(id, domain, ty) ==
    [header |-> [DefaultHeader EXCEPT !.id = id, !.flags = RECURSION_DESIRED],
     question |-> [name |-> domain, ty |-> ty, class |-> "In"]]

\* variant: recursion-desired put in bit 0
DnsQuery_new_bit0(id, domain, ty) ==
    [header |-> [DefaultHeader EXCEPT !.id = id, !.flags = 1,
                                      !.num_questions = 1],
     question |-> [name |-> domain, ty |-> ty, class |-> "In"]]

DnsQuery_new(id, domain, ty) ==
    [header |-> [DefaultHeader EXCEPT !.id = id,
                                      !.flags = RECURSION_DESIRED,
                                      !.num_questions = 1],
     question |-> [name |-> domain, ty |-> ty, class |-> "In"]]

\* variant: question before header
DnsQuery_serialize_swapped(q, dst) ==
    LET r == DnsQuestion_serialize(q.question, dst)
    IN IF r.panicked THEN r ELSE DnsHeader_serialize(q.header, r.dst)

DnsQuery_serialize(q, dst) ==
    LET r == DnsHeader_serialize(q.header, dst)
    IN IF r.panicked THEN r ELSE DnsQuestion_serialize(q.question, r.dst)

\* ----------------------------------------------------------------- inputs
RECURSIVE SeqsUpTo(_, _)
SeqsUpTo(S, n) ==
    IF n = 0 THEN {<<>>}
    ELSE LET shorter == SeqsUpTo(S, n - 1)
         IN shorter \cup {Append(s, b) : s \in {t \in shorter : Len(t) = n - 1}, b \in S}

Alphabet == {Dot, 97, 0}

Rep(b, n) == [i \in 1..n |-> b]

\* "foo", "example.com", "google.com.br" of the unit tests and of run()
Foo == <<102, 111, 111>>
ExampleCom == <<101, 120, 97, 109, 112, 108, 101, 46, 99, 111, 109>>
GoogleComBr == <<103, 111, 111, 103, 108, 101, 46, 99, 111, 109, 46, 98, 114>>

LongLens == {U8Max - 1, U8Max, U8Max + 1, U8Max + 45}

LongDomains ==
    {p \o Rep(97, n) \o s : n \in LongLens,
                            p \in {<<>>, <<98, Dot>>},
                            s \in {<<>>, <<Dot, 98, 98>>}}

Domains == SeqsUpTo(Alphabet, MaxLen) \cup LongDomains
           \cup {Foo, ExampleCom, GoogleComBr}

Ids == {43981, 65535} \cup {(k * 4951) % 65536 : k \in 0..(NumIds - 1)}

\* header literals: the unit test's header and rotations of distinct samples
HeaderSamples == <<4884, 1, 2, 3, 4, 5, 65535, 256, 255, 43981, 0, 32768>>

Sample(k) == HeaderSamples[((k - 1) % Len(HeaderSamples)) + 1]

Headers ==
    {[id |-> Sample(k), flags |-> Sample(k + 1), num_questions |-> Sample(k + 2),
      num_answers |-> Sample(k + 3), num_authorities |-> Sample(k + 4),
      num_additionals |-> Sample(k + 5)] : k \in 1..Len(HeaderSamples)}
    \cup {DefaultHeader}

InitBufs == {<<>>, <<255, 0>>}

\* ------------------------------------------------------------------ state
VARIABLES
    given,      \* arguments of the last DnsQuery::new
    query,      \* the constructed DnsQuery, or NoQuery
    pre,        \* the buffer as it was before the serialize call
    dst,        \* the output buffer
    call,       \* the serialize call made: [op, arg]
    result,     \* "none", "ok" (returned) or "panic" (unwound)
    pc,         \* run(): position
    socket,     \* run(): "none", "bound", "connected"
    trace,      \* run(): socket and encoder calls made so far, in order
    net,        \* run(): datagrams handed to the network
    got,        \* run(): the byte count recv returned, -1 before that
    outcome     \* run(): "running", "ok" or "err"

encVars == <<given, query, pre, dst, call, result>>
runVars == <<pc, socket, trace, net, got, outcome>>
vars == <<given, query, pre, dst, call, result, pc, socket, trace, net, got, outcome>>

NoQuery == [none |-> TRUE]
NoCall == [op |-> "none"]
NoGiven == [none |-> TRUE]

Outcome(r) == IF r.panicked THEN "panic" ELSE "ok"

RunIdle ==
    /\ pc = "bind"
    /\ socket = "none"
    /\ trace = <<>>
    /\ net = <<>>
    /\ got = -1
    /\ outcome = "running"

Init ==
    /\ given = NoGiven
    /\ query = NoQuery
    /\ dst \in InitBufs
    /\ pre = dst
    /\ call = NoCall
    /\ result = "none"
    /\ RunIdle

\* ------------------------------------------------- encoder operations
New ==
    /\ query = NoQuery
    /\ call = NoCall
    /\ \E id \in Ids, domain \in Domains, ty \in Types :
          /\ given' = [id |-> id, domain |-> domain, ty |-> ty]
          /\ query' = DnsQuery_new(id, domain, ty)
    /\ UNCHANGED <<pre, dst, call, result>>
    /\ UNCHANGED runVars

Finish(op, arg, r) ==
    /\ call' = [op |-> op, arg |-> arg]
    /\ pre' = dst
    /\ dst' = r.dst
    /\ result' = Outcome(r)

SerializeHeader ==
    /\ call = NoCall
    /\ query = NoQuery
    /\ \E h \in Headers : Finish("header", h, DnsHeader_serialize(h, dst))
    /\ UNCHANGED <<given, query>>
    /\ UNCHANGED runVars

SerializeDomain ==
    /\ call = NoCall
    /\ query = NoQuery
    /\ \E d \in Domains : Finish("domain", d, Domain_serialize(d, dst))
    /\ UNCHANGED <<given, query>>
    /\ UNCHANGED runVars

SerializeQuestion ==
    /\ call = NoCall
    /\ query = NoQuery
    /\ \E d \in Domains, ty \in Types :
          LET q == [name |-> d, ty |-> ty, class |-> "In"]
          IN Finish("question", q, DnsQuestion_serialize(q, dst))
    /\ UNCHANGED <<given, query>>
    /\ UNCHANGED runVars

SerializeQuery ==
    /\ call = NoCall
    /\ query # NoQuery
    /\ Finish("query", query, DnsQuery_serialize(query, dst))
    /\ UNCHANGED <<given, query>>
    /\ UNCHANGED runVars

Next ==
    \/ New
    \/ SerializeHeader
    \/ SerializeDomain
    \/ SerializeQuestion
    \/ SerializeQuery

Spec == Init /\ [][Next]_vars

\* ------------------------------------------------------------------ run()
RunIds == {(k * 3301) % 65536 : k \in 0..(NumRunIds - 1)}

RecvSizes == {0, 45, RecvBufLen}

\* the `?` on a failed socket call: run returns the error, nothing follows
Fail(ev) ==
    /\ trace' = Append(trace, ev)
    /\ pc' = "failed"
    /\ outcome' = "err"

RunBind ==
    /\ pc = "bind"
    /\ \/ /\ socket' = "bound"
          /\ trace' = Append(trace, "bind_ok")
          /\ pc' = "connect"
          /\ UNCHANGED outcome
       \/ /\ Fail("bind_err")
          /\ UNCHANGED socket
    /\ UNCHANGED <<net, got>>
    /\ UNCHANGED encVars

RunConnect ==
    /\ pc = "connect"
    /\ \/ /\ socket' = "connected"
          /\ trace' = Append(trace, "connect_ok")
          /\ pc' = "new"
          /\ UNCHANGED outcome
       \/ /\ Fail("connect_err")
          /\ UNCHANGED socket
    /\ UNCHANGED <<net, got>>
    /\ UNCHANGED encVars

RunNew ==
    /\ pc = "new"
    /\ \E id \in RunIds :
          /\ given' = [id |-> id, domain |-> ExampleCom, ty |-> "A"]
          /\ query' = DnsQuery_new(id, ExampleCom, "A")
    /\ trace' = Append(trace, "new")
    /\ pc' = "serialize"
    /\ UNCHANGED <<pre, dst, call, result>>
    /\ UNCHANGED <<socket, net, got, outcome>>

RunSerialize ==
    /\ pc = "serialize"
    /\ LET r == DnsQuery_serialize(query, <<>>)
       IN /\ call' = [op |-> "query", arg |-> query]
          /\ pre' = <<>>
          /\ dst' = r.dst
          /\ result' = Outcome(r)
          /\ IF r.panicked
             THEN /\ trace' = Append(trace, "serialize_panic")
                  /\ pc' = "failed"
                  /\ outcome' = "panic"
             ELSE /\ trace' = Append(trace, "serialize_ok")
                  /\ pc' = "send"
                  /\ UNCHANGED outcome
    /\ UNCHANGED <<given, query>>
    /\ UNCHANGED <<socket, net, got>>

\* variant: a failed send is tried again
RunSend_retry ==
    /\ pc = "send"
    /\ \/ /\ net' = Append(net, dst)
          /\ trace' = Append(trace, "send_ok")
          /\ pc' = "recv"
          /\ UNCHANGED outcome
       \/ /\ trace' = Append(trace, "send_err")
          /\ UNCHANGED <<net, pc, outcome>>
    /\ UNCHANGED <<socket, got>>
    /\ UNCHANGED encVars

RunSend ==
    /\ pc = "send"
    /\ \/ /\ net' = Append(net, dst)
          /\ trace' = Append(trace, "send_ok")
          /\ pc' = "recv"
          /\ UNCHANGED outcome
       \/ /\ Fail("send_err")
          /\ UNCHANGED net
    /\ UNCHANGED <<socket, got>>
    /\ UNCHANGED encVars

RunRecv ==
    /\ pc = "recv"
    /\ \/ /\ \E n \in RecvSizes : got' = n
          /\ trace' = Append(trace, "recv_ok")
          /\ pc' = "done"
          /\ outcome' = "ok"
       \/ /\ Fail("recv_err")
          /\ UNCHANGED got
    /\ UNCHANGED <<socket, net>>
    /\ UNCHANGED encVars

RunInit == Init /\ dst = <<>>

RunNext ==
    \/ RunBind
    \/ RunConnect
    \/ RunNew
    \/ RunSerialize
    \/ RunSend
    \/ RunRecv

RunSpec == RunInit /\ [][RunNext]_vars

\* ==================================================================
\* Properties
\* ==================================================================
\* the bytes the call appended, and that it only appended
Appended == SubSeq(dst, Len(pre) + 1, Len(dst))

OnlyAppended == Len(dst) >= Len(pre) /\ SubSeq(dst, 1, Len(pre)) = pre

BE16(n) == <<n \div 256, n % 256>>

FromBE16(hi, lo) == hi * 256 + lo

\* wire layout of RFC 1035 4.1, written out independently of the serializers
HeaderBytes(h) ==
    BE16(h.id) \o BE16(h.flags) \o BE16(h.num_questions) \o BE16(h.num_answers)
    \o BE16(h.num_authorities) \o BE16(h.num_additionals)

RECURSIVE LabelBytes(_)
LabelBytes(labels) ==
    IF labels = <<>> THEN <<>>
    ELSE <<Len(Head(labels))>> \o Head(labels) \o LabelBytes(Tail(labels))

NameBytes(labels) == LabelBytes(labels) \o <<0>>

RECURSIVE Join(_)
Join(labels) ==
    IF Len(labels) = 1 THEN labels[1]
    ELSE labels[1] \o <<Dot>> \o Join(Tail(labels))

\* labels is the dot-separated decomposition of name
IsDotSplit(name, labels) ==
    /\ Len(labels) >= 1
    /\ \A k \in 1..Len(labels) : \A i \in 1..Len(labels[k]) : labels[k][i] # Dot
    /\ Join(labels) = name

LabelsFit(labels) == \A k \in 1..Len(labels) : Len(labels[k]) <= 255

\* the name a call serializes, if any
NameOf(c) ==
    CASE c.op = "domain" -> c.arg
      [] c.op = "question" -> c.arg.name
      [] c.op = "query" -> c.arg.question.name

HasName(c) == c.op \in {"domain", "question", "query"}

\* C1: Query::new(id, domain, ty) yields header id = id, flags = 0x0100,
\* question count 1, the other three counts 0, and a single question with
\* the given domain, the given type and class IN.
C1_NewFixesFields ==
    query # NoQuery =>
        /\ query.header.id = given.id
        /\ query.header.flags = 256
        /\ query.header.num_questions = 1
        /\ query.header.num_answers = 0
        /\ query.header.num_authorities = 0
        /\ query.header.num_additionals = 0
        /\ query.question.name = given.domain
        /\ query.question.ty = given.ty
        /\ query.question.class = "In"

C1_Witness ==
    /\ query # NoQuery
    /\ given.id = 43981
    /\ given.domain = ExampleCom
    /\ call = NoCall

\* C2: for a name whose dot-separated labels are each at most 255 bytes,
\* Domain serialize appends, per label in order (empty ones included), the
\* length byte and the label bytes, then exactly one zero byte, nothing else.
C2_DomainEncoding ==
    (call.op = "domain" /\ LabelsFit(Split(call.arg))) =>
        /\ result = "ok"
        /\ IsDotSplit(call.arg, Split(call.arg))
        /\ OnlyAppended
        /\ Appended = NameBytes(Split(call.arg))
        /\ call.arg = GoogleComBr =>
              Appended = <<6, 103, 111, 111, 103, 108, 101, 3, 99, 111, 109,
                           2, 98, 114, 0>>

\* a name with a leading, a doubled and a trailing separator went through
C2_Witness ==
    /\ call.op = "domain"
    /\ call.arg = <<Dot, 97, Dot, Dot>>
    /\ result = "ok"
    /\ Appended = <<0, 1, 97, 0, 0, 0>>

\* index of the first label that does not fit a length byte
FirstLong(labels) ==
    CHOOSE k \in 1..Len(labels) :
        /\ Len(labels[k]) > 255
        /\ \A j \in 1..(k - 1) : Len(labels[j]) <= 255

\* what a call has appended when it reaches the labels of its name
Lead(c) == IF c.op = "query" THEN HeaderBytes(c.arg.header) ELSE <<>>

TooLong == HasName(call) /\ ~LabelsFit(Split(NameOf(call)))

\* the bytes appended up to, and excluding, the first over-long label
BeforeFirstLong ==
    LET labels == Split(NameOf(call))
    IN Lead(call) \o LabelBytes(SubSeq(labels, 1, FirstLong(labels) - 1))

\* C3: a label longer than 255 bytes makes serialization fail
\* with the error value EncodingError::LabelTooLong reported to the caller,
\* without truncating or wrapping, and no bytes are emitted for that label.
C3_ReportsLabelTooLong ==
    TooLong =>
        /\ result = "LabelTooLong"
        /\ OnlyAppended
        /\ Appended = BeforeFirstLong

\* C4: when serialization of a Query, Question or Domain fails on an
\* over-long label, the output buffer holds no partial message afterwards:
\* no header bytes and no bytes of the labels before the offending one.
C4_NoPartialOutput ==
    (HasName(call) /\ result # "ok") => dst = pre

RECURSIVE SumLabels(_)
SumLabels(labels) ==
    IF labels = <<>> THEN 0 ELSE 1 + Len(Head(labels)) + SumLabels(Tail(labels))

QuestionBytes(q) ==
    NameBytes(Split(q.name)) \o BE16(TypeCode(q.ty)) \o BE16(ClassCode(q.class))

\* C5: for a Query whose labels all fit, Query serialize appends the 12
\* header bytes immediately followed by the question encoding, nothing in
\* front and nothing after, so the appended length is
\* 12 + sum over labels of (1 + length) + 1 + 4.
C5_QueryEncoding ==
    (call.op = "query" /\ LabelsFit(Split(NameOf(call)))) =>
        /\ result = "ok"
        /\ OnlyAppended
        /\ SubSeq(Appended, 1, 12) = HeaderBytes(call.arg.header)
        /\ SubSeq(Appended, 13, Len(Appended)) = QuestionBytes(call.arg.question)
        /\ Len(dst) - Len(pre) = 12 + SumLabels(Split(NameOf(call))) + 1 + 4

\* a query with a 255-byte label and two more labels, onto a non-empty buffer
C5_Witness ==
    /\ call.op = "query"
    /\ result = "ok"
    /\ NameOf(call) = <<98, Dot>> \o Rep(97, 255) \o <<Dot, 98, 98>>
    /\ pre # <<>>
    /\ Len(dst) - Len(pre) = 12 + 2 + 256 + 3 + 1 + 4

\* C6: Header serialize appends exactly 12 bytes, the six fields in the
\* order id, flags, questions, answers, authorities, additionals, each
\* big-endian, so reading them back as six big-endian u16 gives the fields.
C6_HeaderRoundTrip ==
    call.op = "header" =>
        LET a == Appended
            h == call.arg
        IN /\ result = "ok"
           /\ OnlyAppended
           /\ Len(a) = 12
           /\ \A i \in 1..12 : a[i] \in 0..255
           /\ FromBE16(a[1], a[2]) = h.id
           /\ FromBE16(a[3], a[4]) = h.flags
           /\ FromBE16(a[5], a[6]) = h.num_questions
           /\ FromBE16(a[7], a[8]) = h.num_answers
           /\ FromBE16(a[9], a[10]) = h.num_authorities
           /\ FromBE16(a[11], a[12]) = h.num_additionals
           /\ h.id = 4884 /\ h.flags = 1 =>
                 a = <<19, 20, 0, 1, 0, 2, 0, 3, 0, 4, 0, 5>>

\* the unit test's header was serialized
C6_Witness ==
    /\ call.op = "header"
    /\ call.arg = [id |-> 4884, flags |-> 1, num_questions |-> 2,
                   num_answers |-> 3, num_authorities |-> 4,
                   num_additionals |-> 5]
    /\ Appended = <<19, 20, 0, 1, 0, 2, 0, 3, 0, 4, 0, 5>>

\* reading an encoding back: a length byte and that many label bytes, over
\* and over, until a zero length byte; end is the position of that zero
\* byte, or 0 when the bytes run out before one is met
RECURSIVE DecodeFrom(_, _, _)
DecodeFrom(bytes, i, acc) ==
    IF i > Len(bytes) THEN [labels |-> acc, end |-> 0]
    ELSE IF bytes[i] = 0 THEN [labels |-> acc, end |-> i]
    ELSE IF i + bytes[i] > Len(bytes) THEN [labels |-> acc, end |-> 0]
    ELSE DecodeFrom(bytes, i + bytes[i] + 1,
                    Append(acc, SubSeq(bytes, i + 1, i + bytes[i])))

Decode(bytes) == DecodeFrom(bytes, 1, <<>>)

NoEmptyLabel(labels) == \A k \in 1..Len(labels) : Len(labels[k]) > 0

\* C7 (as stated): for every name whose labels are each at most 255 bytes,
\* empty labels included, decoding the Domain encoding length byte by length
\* byte up to a zero-length label gives back the original label sequence.
C7_DecodeRoundTrip ==
    (call.op = "domain" /\ LabelsFit(Split(call.arg))) =>
        /\ result = "ok"
        /\ Decode(Appended).labels = Split(call.arg)
        /\ Decode(Appended).end > 0

\* C7 (amended): for every name whose labels are each non-empty and at most
\* 255 bytes, decoding the Domain encoding gives back the original label
\* sequence, and the zero-length label that ends it is the last byte.
C7_DecodeRoundTripNonEmpty ==
    (call.op = "domain" /\ LabelsFit(Split(call.arg))
                        /\ NoEmptyLabel(Split(call.arg))) =>
        /\ result = "ok"
        /\ Decode(Appended).labels = Split(call.arg)
        /\ Decode(Appended).end = Len(Appended)

\* a three-label name holding a 255-byte label was encoded and read back
C7_Witness ==
    /\ call.op = "domain"
    /\ call.arg = <<98, Dot>> \o Rep(97, 255) \o <<Dot, 98, 98>>
    /\ result = "ok"
    /\ Decode(Appended).labels = <<<<98>>, Rep(97, 255), <<98, 98>>>>

ExampleQueryBytes ==
    <<171, 205, 1, 0, 0, 1, 0, 0, 0, 0, 0, 0,
      7, 101, 120, 97, 109, 112, 108, 101, 3, 99, 111, 109, 0,
      0, 1, 0, 1>>

IsExampleCall ==
    /\ call.op = "query"
    /\ given = [id |-> 43981, domain |-> ExampleCom, ty |-> "A"]
    /\ pre = <<>>

\* C8 (as stated): Query::new(0xABCD, "example.com", A) serialized into an
\* empty buffer gives AB CD 01 00 00 01 00 00 00 00 00 00 07 "example"
\* 03 "com" 00 00 01 00 01, and that output is 41 bytes long.
C8_ExampleIs41Bytes ==
    IsExampleCall => (dst = ExampleQueryBytes /\ Len(dst) = 41)

\* C8 (amended): the same call gives the same bytes, and that output is
\* 29 bytes long.
C8_ExampleIs29Bytes ==
    IsExampleCall => (result = "ok" /\ dst = ExampleQueryBytes /\ Len(dst) = 29)

C8_Witness == IsExampleCall /\ result = "ok" /\ Len(dst) > 0

\* C9: for a question whose labels all fit, Question serialize appends the
\* Domain encoding of the name, then the type code as big-endian u16
\* (A -> 00 01), then the class code as big-endian u16 (IN -> 00 01), and
\* nothing else.
C9_QuestionEncoding ==
    (call.op = "question" /\ LabelsFit(Split(NameOf(call)))) =>
        LET n == Len(NameBytes(Split(NameOf(call))))
        IN /\ result = "ok"
           /\ OnlyAppended
           /\ Len(Appended) = n + 4
           /\ SubSeq(Appended, 1, n) = NameBytes(Split(NameOf(call)))
           /\ call.arg.ty = "A" => SubSeq(Appended, n + 1, n + 2) = <<0, 1>>
           /\ call.arg.class = "In" => SubSeq(Appended, n + 3, n + 4) = <<0, 1>>
           /\ call.arg.name = Foo =>
                 Appended = <<3, 102, 111, 111, 0, 0, 1, 0, 1>>

\* the unit test's question was serialized
C9_Witness ==
    /\ call.op = "question"
    /\ call.arg = [name |-> Foo, ty |-> "A", class |-> "In"]
    /\ pre = <<>>
    /\ dst = <<3, 102, 111, 111, 0, 0, 1, 0, 1>>

\* positions in the call log
At(evs) == {i \in 1..Len(trace) : trace[i] \in evs}

SendCalls == At({"send_ok", "send_err"})

TransportErrors == {"bind_err", "connect_err", "send_err", "recv_err"}

\* C10: in every execution of run the query is encoded fully before
\* anything is sent. There is never more than one send, and exactly one in
\* every run that gets as far as sending; the send comes only after bind and
\* connect succeeded and serialization completed; a successful send puts the
\* complete encoded query on the network as one datagram; receive is
\* attempted only right after a successful send; a transport failure at
\* bind, connect, send or receive is the last call of the run, which ends
\* with that error, without a retry or a further send.
C10_EncodeThenSendOnce ==
    /\ Cardinality(SendCalls) <= 1
    /\ pc \in {"recv", "done"} => Cardinality(SendCalls) = 1
    /\ pc \in {"bind", "connect", "new", "serialize", "send"} => SendCalls = {}
    /\ \A i \in SendCalls :
          /\ SubSeq(trace, 1, i - 1) = <<"bind_ok", "connect_ok", "new", "serialize_ok">>
          /\ socket = "connected"
          /\ call.op = "query" /\ result = "ok"
    /\ Len(net) = Cardinality(At({"send_ok"}))
    /\ \A k \in 1..Len(net) :
          /\ net[k] = HeaderBytes(query.header) \o QuestionBytes(query.question)
          /\ Len(net[k]) = 29
          /\ FromBE16(net[k][1], net[k][2]) = given.id
    /\ \A i \in At({"recv_ok", "recv_err"}) : i > 1 /\ trace[i - 1] = "send_ok"
    /\ \A i \in At(TransportErrors) :
          i = Len(trace) /\ pc = "failed" /\ outcome = "err"
    /\ pc = "failed" => At(TransportErrors) # {}
    /\ pc = "done" =>
          /\ outcome = "ok"
          /\ trace = <<"bind_ok", "connect_ok", "new", "serialize_ok",
                       "send_ok", "recv_ok">>

\* a run went through to the end with a non-zero transaction id
C10_Witness ==
    /\ pc = "done"
    /\ given.id # 0
    /\ Len(net) = 1
    /\ got = 45

\* a run ended on a failed send, nothing on the network
C10_WitnessSendFailed ==
    /\ pc = "failed"
    /\ trace[Len(trace)] = "send_err"
    /\ net = <<>>

====
